---- MODULE Spec2Model ----
(***************************************************************************)
(* Optimization engine of qux-95-genesis-core: OptimizationContext         *)
(* (optimization_module.py), the seven algorithms of                       *)
(* optimization_methods.py and the composite strategies of                 *)
(* QuantumReasoningBridge (quantum_reasoning_bridge.py).                   *)
(*                                                                         *)
(* Numbers are integers.  A float64 is any integer of the sample sets; a   *)
(* float32 is an even one, and F32 is the conversion np.array(...,         *)
(* dtype=np.float32) / torch.tensor(..., dtype=torch.float32).  A          *)
(* parameter vector has one component.  time.time() reads a logical clock. *)
(* The objective is a collaborator: every evaluation draws its value and   *)
(* gradient from the sample sets (finite numbers, no NaN).                 *)
(***************************************************************************)
EXTENDS Integers, Sequences, FiniteSets, TLC

VARIABLES contexts, lists, now, calls, alg, result, hyb, ens, parked, evaluation,
          outcome, descent, search, pop

vars == <<contexts, lists, now, calls, alg, result, hyb, ens, parked,
          evaluation, outcome, descent, search, pop>>

-----------------------------------------------------------------------------
(* Bounds and sample sets *)

MaxIter == 2
MaxTime == 4

Inf == 1000
Null == -1000
Tol == 1
Lr == 1
WDen == 2

Values == 0..2
Params == 0..2
Grads == {-2, 0, 2}
Ids == {<<"c1">>}
Methods == {"sgd", "adam", "bfgs", "newton_cg", "genetic", "pso", "sa"}
ObjectiveTypes == {"minimize", "maximize"}
NoReason == "None"

F32(x) == IF x = Null THEN Null ELSE x - (x % 2)

Abs(x) == IF x < 0 THEN -x ELSE x

Last(s) == s[Len(s)]

-----------------------------------------------------------------------------
(* OptimizationContext *)

\* The object store the context methods act on.
St == [ctx |-> contexts, lists |-> lists, now |-> now, calls |-> calls]

\* a constructor that keeps the parameters as given, without the float32 cast
NewContextKeepingDtype(context_id, parameters, config, ref) ==
    [id |-> context_id,
     initial_parameters |-> parameters,
     current_parameters |-> parameters,
     config |-> config,
     steps |-> ref,
     loss_history |-> <<>>,
     gradient_history |-> <<>>,
     start_time |-> Null,
     end_time |-> Null,
     best_parameters |-> Null,
     best_loss |-> Inf,
     termination_reason |-> NoReason]

NewContext(context_id, parameters, config, ref) ==
    [id |-> context_id,
     initial_parameters |-> F32(parameters),
     current_parameters |-> F32(parameters),
     config |-> config,
     steps |-> ref,
     loss_history |-> <<>>,
     gradient_history |-> <<>>,
     start_time |-> Null,
     end_time |-> Null,
     best_parameters |-> Null,
     best_loss |-> Inf,
     termination_reason |-> NoReason]

Start(st, s) ==
    [st EXCEPT !.ctx[s].start_time = st.now,
               !.now = @ + 1,
               !.calls = Append(@, <<s, "start">>)]

LogStep(st, s, iteration, loss, parameters, gradient) ==
    LET c == st.ctx[s]
        step_data == [iteration |-> iteration, loss |-> loss,
                      parameters |-> parameters, timestamp |-> st.now,
                      gradient |-> gradient]
        better == loss < c.best_loss
    IN [st EXCEPT !.lists[c.steps] = Append(@, step_data),
                  !.ctx[s].loss_history = Append(@, loss),
                  !.ctx[s].best_loss = IF better THEN loss ELSE @,
                  !.ctx[s].best_parameters = IF better THEN parameters ELSE @,
                  !.now = @ + 1,
                  !.calls = Append(@, <<s, "log_step">>)]

Finish(st, s, reason) ==
    [st EXCEPT !.ctx[s].end_time = st.now,
               !.ctx[s].termination_reason = reason,
               !.now = @ + 1,
               !.calls = Append(@, <<s, "finish">>)]

SetCurrent(st, s, parameters) ==
    [st EXCEPT !.ctx[s].current_parameters = parameters]

GetResult(st, s) ==
    LET c == st.ctx[s]
        final_parameters == IF c.best_parameters # Null THEN c.best_parameters
                            ELSE c.current_parameters
    IN [id |-> c.id,
        finalLoss |-> c.best_loss,
        parameters |-> final_parameters,
        iterations |-> Len(st.lists[c.steps]),
        timeTaken |-> IF c.end_time # Null THEN (c.end_time - c.start_time) * 1000 ELSE 0,
        terminationReason |-> c.termination_reason,
        method |-> c.config.primary_method]

NoResult ==
    [id |-> <<>>, finalLoss |-> Inf, parameters |-> Null, iterations |-> 0,
     timeTaken |-> 0, terminationReason |-> NoReason, method |-> "none"]

Serialize(st, s) ==
    LET c == st.ctx[s]
    IN [id |-> c.id,
        initial_parameters |-> c.initial_parameters,
        current_parameters |-> c.current_parameters,
        config |-> c.config,
        steps |-> c.steps,
        start_time |-> c.start_time,
        end_time |-> c.end_time,
        best_loss |-> IF c.best_loss # Inf THEN c.best_loss ELSE Null,
        best_parameters |-> c.best_parameters,
        termination_reason |-> c.termination_reason]

\* deserialize: the new object keeps data["steps"], the list it was given.
Deserialize(st, data, fresh) ==
    LET base == NewContext(data.id, data.initial_parameters, data.config, fresh)
        steps == st.lists[data.steps]
    IN [base EXCEPT
          !.current_parameters = F32(data.current_parameters),
          !.steps = data.steps,
          !.start_time = data.start_time,
          !.end_time = data.end_time,
          !.best_loss = IF data.best_loss # Null THEN data.best_loss ELSE Inf,
          !.best_parameters = IF data.best_parameters # Null
                              THEN F32(data.best_parameters) ELSE Null,
          !.termination_reason = data.termination_reason,
          !.loss_history = IF Len(steps) > 0
                           THEN [k \in 1..Len(steps) |-> steps[k].loss]
                           ELSE <<>>]

-----------------------------------------------------------------------------
(* ObjectiveWrapper and the method registry *)

Sign(config) == IF config.objective_type = "minimize" THEN 1 ELSE -1

\* __call__ on an objective that returns a (value, gradients) pair
WrapperCall(config, value, gradients) ==
    [loss |-> Sign(config) * F32(value), grad |-> Sign(config) * F32(gradients)]

\* numpy_evaluation on an objective that returns a (value, gradients) pair
NumpyEvaluation(config, value, gradients) ==
    [value |-> Sign(config) * value, gradients |-> Sign(config) * gradients]

\* What an objective function may return. An absent value or gradient is
\* Null; a tuple of a length other than 2 carries nothing the adapter reads.
Scalar(value) == [shape |-> "scalar", value |-> value, gradients |-> Null]
Pair(value, gradients) == [shape |-> "pair", value |-> value, gradients |-> gradients]
Keyed(value, gradients) == [shape |-> "dict", value |-> value, gradients |-> gradients]
OtherTuple(length) == [shape |-> "tuple", value |-> length, gradients |-> Null]

ObjectiveResults ==
    {Scalar(v) : v \in Values}
    \cup {Pair(v, g) : v \in Values, g \in Grads}
    \cup {Keyed(v, g) : v \in Values \cup {Null}, g \in Grads \cup {Null}}
    \cup {OtherTuple(1), OtherTuple(3)}

\* self.sign
SignOf(objective_type) == IF objective_type = "minimize" THEN 1 ELSE -1

Raised(error) == [status |-> error, value |-> Null, gradients |-> Null]

\* a value-only evaluation that never returns a gradient
NumpyEvaluationValueOnly(objective_type, r) ==
    IF r.shape = "tuple" THEN Raised("TypeError")
    ELSE [status |-> "ok",
          value |-> SignOf(objective_type) * (IF r.value = Null THEN 0 ELSE r.value),
          gradients |-> Null]

\* numpy_evaluation on any objective result: a keyed record defaults its
\* value to 0.0 and its gradients to zeros; anything that is neither a dict
\* nor a 2-tuple is multiplied by the float sign, which a tuple does not allow
NumpyEvaluationOf(objective_type, r) ==
    LET sign == SignOf(objective_type)
    IN CASE r.shape = "dict" ->
              [status |-> "ok",
               value |-> sign * (IF r.value = Null THEN 0 ELSE r.value),
               gradients |-> sign * (IF r.gradients = Null THEN 0 ELSE r.gradients)]
         [] r.shape = "pair" ->
              [status |-> "ok", value |-> sign * r.value, gradients |-> sign * r.gradients]
         [] r.shape = "scalar" ->
              [status |-> "ok", value |-> sign * r.value, gradients |-> Null]
         [] OTHER -> Raised("TypeError")

\* a call that negates whatever the direction
WrapperCallNegating(objective_type, r) ==
    IF r.shape \in {"dict", "pair"} /\ r.gradients # Null
    THEN [status |-> "ok",
          value |-> -F32(IF r.value = Null THEN 0 ELSE r.value),
          gradients |-> -F32(r.gradients)]
    ELSE Raised("RuntimeError")

\* __call__ on any objective result: value and gradients become float32
\* tensors times the sign; without explicit gradients loss.backward() is
\* called on a tensor that has no grad_fn, which raises
WrapperCallOf(objective_type, r) ==
    LET sign == SignOf(objective_type)
        value == CASE r.shape = "dict" -> (IF r.value = Null THEN 0 ELSE r.value)
                   [] r.shape \in {"pair", "scalar"} -> r.value
                   [] OTHER -> Null
        gradients == IF r.shape \in {"dict", "pair"} THEN r.gradients ELSE Null
    IN IF gradients # Null
       THEN [status |-> "ok", value |-> sign * F32(value),
             gradients |-> sign * F32(gradients)]
       ELSE Raised("RuntimeError")

NoEvaluation ==
    [op |-> "none", objective_type |-> "minimize", objective_result |-> Scalar(0),
     outcome |-> Raised("none")]

Lower(method_name) ==
    CASE method_name = "SGD" -> "sgd"
      [] method_name = "Adam" -> "adam"
      [] OTHER -> method_name

GetOptimizationMethod(method_name) ==
    IF Lower(method_name) \in Methods THEN Lower(method_name) ELSE "adam"

\* what get_optimization_method prints or logs: its body is the one return
LookupWarnings(method_name) == <<>>

-----------------------------------------------------------------------------------------------------------------------------------------------------
(* Binary floating point.  A float is a record [m, e] of value m * 2^e, with
   m = 0 or 2^23 <= |m| < 2^24: the float32 format, and the float64 values
   that fit it (powers of two).  Subnormals and overflow do not arise at the
   magnitudes used. *)

RECURSIVE BitLen(_)
BitLen(a) == IF a = 0 THEN 0 ELSE 1 + BitLen(a \div 2)

\* a / 2^k rounded to the nearest integer, ties to the even one
RoundShift(a, k) ==
    IF k = 0 THEN a
    ELSE LET q == a \div 2^k
             r == a % 2^k
             half == 2^(k - 1)
         IN IF r > half \/ (r = half /\ q % 2 = 1) THEN q + 1 ELSE q

\* a \div 2^k with the lost bits or-ed into the lowest bit
ShiftSticky(a, k) ==
    IF k >= 30 THEN (IF a = 0 THEN 0 ELSE 1)
    ELSE LET q == a \div 2^k
         IN IF a % 2^k # 0 /\ q % 2 = 0 THEN q + 1 ELSE q

\* the float32 nearest to m * 2^e (|m| < 2^31)
Float32(m, e) ==
    LET a == Abs(m)
        s == IF m < 0 THEN -1 ELSE 1
        n == BitLen(a)
    IN IF a = 0 THEN [m |-> 0, e |-> 0]
       ELSE IF n <= 24 THEN [m |-> m * 2^(24 - n), e |-> e - (24 - n)]
       ELSE LET q == RoundShift(a, n - 24)
            IN IF q = 2^24 THEN [m |-> s * 2^23, e |-> e + (n - 24) + 1]
               ELSE [m |-> s * q, e |-> e + (n - 24)]

\* float32 product: the 48-bit product of the mantissas, from 12-bit halves,
\* cut to 30 bits with a sticky bit, then rounded
FMul(x, y) ==
    LET a == Abs(x.m)
        b == Abs(y.m)
        s == IF (x.m < 0) # (y.m < 0) THEN -1 ELSE 1
        a1 == a \div 4096
        a0 == a % 4096
        b1 == b \div 4096
        b0 == b % 4096
        low == a0 * b0
        u == (a1 * b0) + (a0 * b1) + (low \div 4096)
        t == (a1 * b1 * 64) + (u \div 64)
        lost == ((u % 64) * 4096) + (low % 4096)
        ts == IF lost # 0 /\ t % 2 = 0 THEN t + 1 ELSE t
    IN Float32(s * ts, x.e + y.e + 18)

FNeg(x) == [x EXCEPT !.m = -@]

\* float32 sum: the operand of lower exponent is aligned with five guard
\* bits and a sticky bit, then the sum is rounded
FAdd(x, y) ==
    IF x.m = 0 THEN y
    ELSE IF y.m = 0 THEN x
    ELSE LET big == IF x.e >= y.e THEN x ELSE y
             small == IF x.e >= y.e THEN y ELSE x
             gap == big.e - small.e
             sm == ShiftSticky(Abs(small.m) * 32, gap)
         IN Float32(big.m * 32 + (IF small.m < 0 THEN -sm ELSE sm), big.e - 5)

FSub(x, y) == FAdd(x, FNeg(y))

FAbs(x) == [x EXCEPT !.m = Abs(@)]

FSgn(x) == IF x.m > 0 THEN 1 ELSE IF x.m < 0 THEN -1 ELSE 0

\* x < y
FLess(x, y) ==
    IF FSgn(x) # FSgn(y) THEN FSgn(x) < FSgn(y)
    ELSE IF FSgn(x) = 0 THEN FALSE
    ELSE IF FSgn(x) = 1 THEN x.e < y.e \/ (x.e = y.e /\ x.m < y.m)
    ELSE x.e > y.e \/ (x.e = y.e /\ x.m < y.m)

\* float('inf'): above every finite float32
FInf == [m |-> 2^23, e |-> 105]

-----
(* The algorithms: locals of the running invocation are the record alg *)

Frame(s, m) ==
    [status |-> "running", ctx |-> s, method |-> m, i |-> 0,
     x |-> Null, f |-> Null, g |-> Null, m |-> 0, bx |-> Null, bf |-> Null,
     temp |-> 0, warnings |-> <<>>]

IdleFrame == [Frame(<<>>, "none") EXCEPT !.status = "idle"]

\* the lists that some context refers to
Refs(ctx) == {ctx[s].steps : s \in DOMAIN ctx}

FreshRef(ctx) == CHOOSE r \in 1..(Cardinality(DOMAIN ctx) + 1) : r \notin Refs(ctx)

Commit(st) ==
    /\ contexts' = st.ctx
    /\ lists' = [r \in Refs(st.ctx) |-> st.lists[r]]
    /\ now' = st.now
    /\ calls' = st.calls

\* a test that also passes at a difference equal to tol
LastDeltaInclusive(st, s) ==
    LET h == st.ctx[s].loss_history
    IN Abs(h[Len(h)] - h[Len(h) - 1]) <= Tol

\* abs(loss_history[-1] - loss_history[-2]) < tol
LastDelta(st, s) ==
    LET h == st.ctx[s].loss_history
    IN Abs(h[Len(h)] - h[Len(h) - 1]) < Tol

\* a return path that sets the parameters and returns without finish(reason)
TerminateWithoutFinish(st, s, reason, parameters) ==
    SetCurrent(st, s, parameters)

\* context.finish(reason); context.current_parameters = ...; return context.get_result()
Terminate(st, s, reason, parameters) ==
    SetCurrent(Finish(st, s, reason), s, parameters)

Return(st, s) ==
    /\ alg' = [alg EXCEPT !.status = "returned"]
    /\ result' = GetResult(st, s)
    /\ Commit(st)

Continue(st, frame) ==
    /\ alg' = frame
    /\ UNCHANGED result
    /\ Commit(st)

Running(m) == alg.status = "running" /\ alg.method = m

MaxIterOf(s) == contexts[s].config.max_iterations

(* ---- gradient_descent ---- *)

GradientDescentInit(st, s) ==
    [st |-> Start(st, s),
     frame |-> [Frame(s, "sgd") EXCEPT !.x = F32(st.ctx[s].current_parameters)]]

GradientDescentStep ==
    /\ Running("sgd")
    /\ alg.i < MaxIterOf(alg.ctx)
    /\ \E v \in Values, g \in Grads :
         LET s == alg.ctx
             w == WrapperCall(contexts[s].config, v, g)
             st1 == LogStep(St, s, alg.i, w.loss, alg.x, w.grad)
         IN IF alg.i > 0 /\ LastDelta(st1, s)
            THEN Return(Terminate(st1, s, "converged", alg.x), s)
            ELSE /\ (alg.x - Lr * w.grad) \in Params
                 /\ Continue(st1, [alg EXCEPT !.x = F32(alg.x - Lr * w.grad),
                                              !.i = @ + 1])
    /\ UNCHANGED <<hyb, ens, parked, evaluation, outcome, descent, search, pop>>

GradientDescentDone ==
    /\ Running("sgd")
    /\ alg.i >= MaxIterOf(alg.ctx)
    /\ Return(Terminate(St, alg.ctx, "max_iterations", alg.x), alg.ctx)
    /\ UNCHANGED <<hyb, ens, parked, evaluation, outcome, descent, search, pop>>

(* ---- adam: m is 0 while the first moment is zero ---- *)

AdamInit(st, s) ==
    [st |-> Start(st, s),
     frame |-> [Frame(s, "adam") EXCEPT !.x = F32(st.ctx[s].current_parameters)]]

AdamStep ==
    /\ Running("adam")
    /\ alg.i < MaxIterOf(alg.ctx)
    /\ \E v \in Values, g \in {0, 2}, x_new \in {F32(p) : p \in Params} :
         LET s == alg.ctx
             w == WrapperCall(contexts[s].config, v, g)
             st1 == LogStep(St, s, alg.i, w.loss, alg.x, w.grad)
             m_new == IF alg.m = 0 /\ w.grad = 0 THEN 0 ELSE 1
         IN IF alg.i > 0 /\ LastDelta(st1, s)
            THEN /\ x_new = alg.x
                 /\ Return(Terminate(st1, s, "converged", alg.x), s)
            ELSE /\ (m_new = 0 => x_new = alg.x)
                 /\ Continue(st1, [alg EXCEPT !.x = x_new, !.m = m_new, !.i = @ + 1])
    /\ UNCHANGED <<hyb, ens, parked, evaluation, outcome, descent, search, pop>>

AdamDone ==
    /\ Running("adam")
    /\ alg.i >= MaxIterOf(alg.ctx)
    /\ Return(Terminate(St, alg.ctx, "max_iterations", alg.x), alg.ctx)
    /\ UNCHANGED <<hyb, ens, parked, evaluation, outcome, descent, search, pop>>

(* ---- bfgs: g is 0 when the gradient norm is below tol ---- *)

BfgsInit(st, s, v, g) ==
    LET x == st.ctx[s].current_parameters
        r == NumpyEvaluation(st.ctx[s].config, v, g)
    IN [st |-> LogStep(Start(st, s), s, 0, r.value, x, r.gradients),
        frame |-> [Frame(s, "bfgs") EXCEPT !.x = x, !.f = r.value,
                                           !.g = r.gradients, !.i = 1]]

\* the rest of the loop body after the line search: the evaluation at x_new,
\* log_step, the two convergence tests
BfgsAccept ==
    \E v \in Values, g \in {0, 2}, x_new \in Params :
        LET s == alg.ctx
            r == NumpyEvaluation(contexts[s].config, v, g)
            st1 == LogStep(St, s, alg.i, r.value, x_new, r.gradients)
        IN IF Abs(r.gradients) < Tol
           THEN Return(Terminate(st1, s, "converged", x_new), s)
           ELSE IF alg.i > 0 /\ Abs(r.value - alg.f) < Tol
           THEN Return(Terminate(st1, s, "small_improvement", x_new), s)
           ELSE Continue(st1, [alg EXCEPT !.x = x_new, !.f = r.value,
                                          !.g = r.gradients, !.i = @ + 1])

BfgsStep ==
    /\ Running("bfgs")
    /\ alg.i <= MaxIterOf(alg.ctx)
    /\ BfgsAccept
    /\ UNCHANGED <<hyb, ens, parked, evaluation, outcome, descent, search, pop>>

BfgsDone ==
    /\ Running("bfgs")
    /\ alg.i > MaxIterOf(alg.ctx)
    /\ Return(Terminate(St, alg.ctx, "max_iterations", alg.x), alg.ctx)
    /\ UNCHANGED <<hyb, ens, parked, evaluation, outcome, descent, search, pop>>

(* ---- newton_cg ---- *)

NewtonCgInit(st, s) ==
    [st |-> Start(st, s),
     frame |-> [Frame(s, "newton_cg") EXCEPT !.x = st.ctx[s].current_parameters]]

NewtonCgStep ==
    /\ Running("newton_cg")
    /\ alg.i < MaxIterOf(alg.ctx)
    /\ \E v \in Values, g \in {0, 2}, x_new \in Params, v_new \in Values :
         LET s == alg.ctx
             r == NumpyEvaluation(contexts[s].config, v, g)
             r_new == NumpyEvaluation(contexts[s].config, v_new, 0)
             st1 == LogStep(St, s, alg.i, r.value, alg.x, r.gradients)
         IN IF Abs(r.gradients) < Tol
            THEN /\ x_new = alg.x /\ v_new = v
                 /\ Return(Terminate(st1, s, "converged", alg.x), s)
            ELSE IF Abs(r_new.value - r.value) < Tol
            THEN Return(Terminate(st1, s, "small_improvement", x_new), s)
            ELSE Continue(st1, [alg EXCEPT !.x = x_new, !.g = r.gradients,
                                           !.i = @ + 1])
    /\ UNCHANGED <<hyb, ens, parked, evaluation, outcome, descent, search, pop>>

NewtonCgDone ==
    /\ Running("newton_cg")
    /\ alg.i >= MaxIterOf(alg.ctx)
    /\ Return(Terminate(St, alg.ctx, "max_iterations", alg.x), alg.ctx)
    /\ UNCHANGED <<hyb, ens, parked, evaluation, outcome, descent, search, pop>>

(* ---- the backtracking line search of bfgs and newton_cg, pass by pass:
   search holds alpha, the direction p, alpha of the latest evaluation inside
   the loop (evaluated) and the way the loop was left (exit) ---- *)

One == Float32(1, 0)
Half == Float32(1, -1)
\* 1e-10, to 24 bits
MinAlpha == [m |-> 14411519, e |-> -57]
NoAlpha == [m |-> 0, e |-> Null]

IdleSearch ==
    [pc |-> "idle", alpha |-> NoAlpha, p |-> 0, evaluated |-> NoAlpha,
     exit |-> "none"]

\* alpha = 1.0 before the while loop
BeginSearch(p) ==
    [IdleSearch EXCEPT !.pc = "line", !.alpha = One, !.p = p]

\* f_new <= f_old + c1 * alpha * np.dot(g_old, p): the last term is below the
\* spacing of the sample values, so only its sign counts
ArmijoBfgs(f_new, f_old, slope) ==
    IF slope < 0 THEN f_new < f_old ELSE f_new <= f_old

\* f_new <= f - 1e-4 * alpha * np.dot(g, d)
ArmijoNewtonCg(f_new, f, slope) ==
    IF slope > 0 THEN f_new < f ELSE f_new <= f

\* a pass that leaves alpha as it is
LineSearchPassKeepingAlpha ==
    /\ alg.status = "running"
    /\ search.pc = "line"
    /\ \E v \in Values :
         LET f_new == NumpyEvaluation(contexts[alg.ctx].config, v, 0).value
             slope == alg.g * search.p
             armijo == IF alg.method = "bfgs" THEN ArmijoBfgs(f_new, alg.f, slope)
                       ELSE ArmijoNewtonCg(f_new, alg.f, slope)
         IN search' = IF armijo
                      THEN [search EXCEPT !.pc = "update", !.exit = "armijo",
                                          !.evaluated = search.alpha]
                      ELSE [search EXCEPT !.evaluated = search.alpha]
    /\ UNCHANGED <<contexts, lists, now, calls, alg, result, hyb, ens, parked,
                   evaluation, outcome, descent, pop>>

\* one pass of `while True`: the evaluation at x + alpha * p, the Armijo
\* test, the halving, the test of alpha against 1e-10
LineSearchPass ==
    /\ alg.status = "running"
    /\ search.pc = "line"
    /\ \E v \in Values :
         LET f_new == NumpyEvaluation(contexts[alg.ctx].config, v, 0).value
             slope == alg.g * search.p
             armijo == IF alg.method = "bfgs" THEN ArmijoBfgs(f_new, alg.f, slope)
                       ELSE ArmijoNewtonCg(f_new, alg.f, slope)
             alpha == FMul(search.alpha, Half)
         IN search' = IF armijo
                      THEN [search EXCEPT !.pc = "update", !.exit = "armijo",
                                          !.evaluated = search.alpha]
                      ELSE IF FLess(alpha, MinAlpha)
                      THEN [search EXCEPT !.pc = "update", !.exit = "too_small",
                                          !.evaluated = search.alpha,
                                          !.alpha = alpha]
                      ELSE [search EXCEPT !.evaluated = search.alpha,
                                          !.alpha = alpha]
    /\ UNCHANGED <<contexts, lists, now, calls, alg, result, hyb, ens, parked,
                   evaluation, outcome, descent, pop>>

\* the step taken after the loop: x_new = x + alpha * p
StepTaken == search.alpha

\* the locals of the line search are dead after the update
Accepted == [IdleSearch EXCEPT !.exit = search.exit]

\* bfgs: p = -np.dot(H, g_old), then the line search
BfgsDirection ==
    /\ Running("bfgs")
    /\ search.pc = "idle"
    /\ alg.i <= MaxIterOf(alg.ctx)
    /\ \E p \in Grads : search' = BeginSearch(p)
    /\ UNCHANGED <<contexts, lists, now, calls, alg, result, hyb, ens, parked,
                   evaluation, outcome, descent, pop>>

BfgsUpdate ==
    /\ Running("bfgs")
    /\ search.pc = "update"
    /\ BfgsAccept
    /\ search' = Accepted
    /\ UNCHANGED <<hyb, ens, parked, evaluation, outcome, descent, pop>>

\* newton_cg: the evaluation at x, log_step, the gradient test, the
\* direction, then the line search
NewtonCgDirection ==
    /\ Running("newton_cg")
    /\ search.pc = "idle"
    /\ alg.i < MaxIterOf(alg.ctx)
    /\ \E v \in Values, g \in {0, 2}, d \in Grads :
         LET s == alg.ctx
             r == NumpyEvaluation(contexts[s].config, v, g)
             st1 == LogStep(St, s, alg.i, r.value, alg.x, r.gradients)
         IN IF Abs(r.gradients) < Tol
            THEN /\ d = 0
                 /\ Return(Terminate(st1, s, "converged", alg.x), s)
                 /\ search' = search
            ELSE /\ Continue(st1, [alg EXCEPT !.f = r.value, !.g = r.gradients])
                 /\ search' = BeginSearch(d)
    /\ UNCHANGED <<hyb, ens, parked, evaluation, outcome, descent, pop>>

NewtonCgUpdate ==
    /\ Running("newton_cg")
    /\ search.pc = "update"
    /\ \E x_new \in Params, v_new \in Values :
         LET s == alg.ctx
             r_new == NumpyEvaluation(contexts[s].config, v_new, 0)
         IN IF Abs(r_new.value - alg.f) < Tol
            THEN Return(Terminate(St, s, "small_improvement", x_new), s)
            ELSE Continue(St, [alg EXCEPT !.x = x_new, !.i = @ + 1])
    /\ search' = Accepted
    /\ UNCHANGED <<hyb, ens, parked, evaluation, outcome, descent, pop>>

(* ---- genetic_algorithm: bx is best_individual, Null while unbound ---- *)

GeneticInit(st, s) ==
    [st |-> Start(st, s), frame |-> Frame(s, "genetic")]

GeneticStep ==
    /\ Running("genetic")
    /\ alg.i < MaxIterOf(alg.ctx)
    /\ \E v \in Values, best_individual \in Params :
         LET s == alg.ctx
             best_fitness == -NumpyEvaluation(contexts[s].config, v, 0).value
             st1 == LogStep(St, s, alg.i, -best_fitness, best_individual, Null)
             h == st1.ctx[s].loss_history
         IN IF alg.i > 0 /\ Abs(best_fitness - (-h[Len(h) - 1])) < Tol
            THEN Return(Terminate(st1, s, "converged", best_individual), s)
            ELSE Continue(st1, [alg EXCEPT !.bx = best_individual, !.i = @ + 1])
    /\ UNCHANGED <<hyb, ens, parked, evaluation, outcome, descent, search, pop>>

\* after the loop best_individual is unbound when no generation ran
GeneticDone ==
    /\ Running("genetic")
    /\ alg.i >= MaxIterOf(alg.ctx)
    /\ IF alg.bx # Null
       THEN Return(Terminate(St, alg.ctx, "max_iterations", alg.bx), alg.ctx)
       ELSE /\ alg' = [alg EXCEPT !.status = "raised"]
            /\ UNCHANGED result
            /\ Commit(Finish(St, alg.ctx, "max_iterations"))
    /\ UNCHANGED <<hyb, ens, parked, evaluation, outcome, descent, search, pop>>

(* ---- particle_swarm: bf, bx are global_best_val, global_best_pos ---- *)

ParticleSwarmInit(st, s, v, p) ==
    [st |-> Start(st, s),
     frame |-> [Frame(s, "pso") EXCEPT
                  !.bf = NumpyEvaluation(st.ctx[s].config, v, 0).value,
                  !.bx = p]]

ParticleSwarmStep ==
    /\ Running("pso")
    /\ alg.i < MaxIterOf(alg.ctx)
    /\ \E v \in Values, p \in Params :
         LET s == alg.ctx
             val == NumpyEvaluation(contexts[s].config, v, 0).value
             st1 == LogStep(St, s, alg.i, alg.bf, alg.bx, Null)
             h == st1.ctx[s].loss_history
         IN IF alg.i > 0 /\ Abs(alg.bf - h[Len(h) - 1]) < Tol
            THEN /\ v = 0 /\ p = 0
                 /\ Return(Terminate(st1, s, "converged", alg.bx), s)
            ELSE IF val < alg.bf
            THEN Continue(st1, [alg EXCEPT !.bf = val, !.bx = p, !.i = @ + 1])
            ELSE /\ p = 0
                 /\ Continue(st1, [alg EXCEPT !.i = @ + 1])
    /\ UNCHANGED <<hyb, ens, parked, evaluation, outcome, descent, search, pop>>

ParticleSwarmDone ==
    /\ Running("pso")
    /\ alg.i >= MaxIterOf(alg.ctx)
    /\ Return(Terminate(St, alg.ctx, "max_iterations", alg.bx), alg.ctx)
    /\ UNCHANGED <<hyb, ens, parked, evaluation, outcome, descent, search, pop>>

(* ---- simulated_annealing: temp counts the coolings; the temperature is  *)
(*      below 1e-6 after config.cooling_steps of them ---- *)

SimulatedAnnealingInit(st, s, v) ==
    LET x == st.ctx[s].current_parameters
        current_value == NumpyEvaluation(st.ctx[s].config, v, 0).value
    IN [st |-> LogStep(Start(st, s), s, 0, current_value, x, Null),
        frame |-> [Frame(s, "sa") EXCEPT !.x = x, !.f = current_value,
                                         !.bx = x, !.bf = current_value, !.i = 1]]

SimulatedAnnealingStep ==
    /\ Running("sa")
    /\ alg.i <= MaxIterOf(alg.ctx)
    /\ \E v \in Values, neighbor \in Params, accept \in BOOLEAN :
         LET s == alg.ctx
             neighbor_value == NumpyEvaluation(contexts[s].config, v, 0).value
             delta == neighbor_value - alg.f
             taken == delta <= 0 \/ accept
             f1 == IF taken THEN neighbor_value ELSE alg.f
             x1 == IF taken THEN neighbor ELSE alg.x
             newbest == taken /\ neighbor_value < alg.bf
             bf1 == IF newbest THEN neighbor_value ELSE alg.bf
             bx1 == IF newbest THEN neighbor ELSE alg.bx
             st1 == LogStep(St, s, alg.i, bf1, bx1, Null)
             temp1 == alg.temp + 1
         IN /\ (delta <= 0 => accept)
            /\ IF alg.i > 1 /\ LastDelta(st1, s)
               THEN Return(Terminate(st1, s, "converged", bx1), s)
               ELSE IF temp1 >= contexts[s].config.cooling_steps
               THEN Return(Terminate(st1, s, "cooled", bx1), s)
               ELSE Continue(st1, [alg EXCEPT !.x = x1, !.f = f1, !.bx = bx1,
                                              !.bf = bf1, !.temp = temp1,
                                              !.i = @ + 1])
    /\ UNCHANGED <<hyb, ens, parked, evaluation, outcome, descent, search, pop>>

SimulatedAnnealingDone ==
    /\ Running("sa")
    /\ alg.i > MaxIterOf(alg.ctx)
    /\ Return(Terminate(St, alg.ctx, "max_iterations", alg.bx), alg.ctx)
    /\ UNCHANGED <<hyb, ens, parked, evaluation, outcome, descent, search, pop>>

(* ---- genetic_algorithm and particle_swarm with their populations: pop
   holds the objective (a function of the position), the individuals or
   particle positions, and the personal bests of the swarm.  Positions are
   integers; the box [lower_bound, upper_bound] is the range of Params ---- *)

LowerBound == 0
UpperBound == 2
PopSize == 2

Positions == LowerBound..(UpperBound + 2)

\* np.clip(x, lb, ub)
Clip(x) == IF x < LowerBound THEN LowerBound
           ELSE IF x > UpperBound THEN UpperBound ELSE x

\* deterministic objectives: the distance to a minimum c, capped
ObjectiveFunctions ==
    {[x \in Positions |-> IF Abs(x - c) > 2 THEN 2 ELSE Abs(x - c)] : c \in Positions}

IdlePopulation ==
    [status |-> "idle", objective |-> <<>>, population |-> <<>>,
     personal_best_pos |-> <<>>, personal_best_val |-> <<>>]

\* wrapper.numpy_evaluation(individual)["value"]
ValueAt(s, x) == NumpyEvaluation(contexts[s].config, pop.objective[x], 0).value

\* np.argmax / np.argmin: the first index of the extreme value
ArgMin(vals) ==
    CHOOSE k \in DOMAIN vals :
        /\ \A j \in DOMAIN vals : vals[k] <= vals[j]
        /\ \A j \in 1..(k - 1) : vals[j] > vals[k]

\* np.random.uniform(lb, ub, (pop_size, n_params)) with row 0 replaced by
\* context.current_parameters
InitialPopulations(parameters) ==
    {[k \in 1..PopSize |-> IF k = 1 THEN parameters ELSE others[k]] :
        others \in [1..PopSize -> LowerBound..UpperBound]}

\* tournament selection: every slot receives a copy of some individual
Selections(population) ==
    [1..PopSize -> {population[k] : k \in 1..PopSize}]

\* arithmetic crossover of the pair (1, 2): the children lie between the
\* parents and sum to the parents' sum; or no crossover
Crossovers(selected) ==
    {selected} \cup
    {[k \in 1..PopSize |->
        IF k = 1 THEN child1
        ELSE IF k = 2 THEN selected[1] + selected[2] - child1
        ELSE selected[k]] :
       child1 \in {x \in Positions :
                     \/ (selected[1] <= x /\ x <= selected[2])
                     \/ (selected[2] <= x /\ x <= selected[1])}}

\* Gaussian mutation followed by np.clip, of the individuals it picks
Mutations(crossed) ==
    {[k \in 1..PopSize |-> IF delta[k] = 0 THEN crossed[k]
                           ELSE Clip(crossed[k] + delta[k])] :
        delta \in [1..PopSize -> {-1, 0, 1}]}

\* no elitism: the next population is kept as bred
WithoutElitism(next_population, best_individual) == next_population

\* next_population[0] = best_individual
Elitism(next_population, best_individual) ==
    [next_population EXCEPT ![1] = best_individual]

NextPopulations(population, best_individual) ==
    {Elitism(m, best_individual) :
        m \in UNION {Mutations(c) :
                       c \in UNION {Crossovers(sel) : sel \in Selections(population)}}}

\* one generation: fitness of the population, the best individual,
\* log_step, the convergence test, selection, crossover, mutation, elitism
GeneticGeneration ==
    /\ Running("genetic")
    /\ alg.i < MaxIterOf(alg.ctx)
    /\ LET s == alg.ctx
           population == pop.population
           losses == [k \in 1..PopSize |-> ValueAt(s, population[k])]
           best_idx == ArgMin(losses)
           best_individual == population[best_idx]
           best_fitness == -losses[best_idx]
           st1 == LogStep(St, s, alg.i, -best_fitness, best_individual, Null)
           h == st1.ctx[s].loss_history
       IN IF alg.i > 0 /\ Abs(best_fitness - (-h[Len(h) - 1])) < Tol
          THEN /\ Return(Terminate(st1, s, "converged", best_individual), s)
               /\ pop' = [pop EXCEPT !.status = "returned"]
          ELSE /\ Continue(st1, [alg EXCEPT !.bx = best_individual, !.i = @ + 1])
               /\ \E next_population \in NextPopulations(population, best_individual) :
                    pop' = [pop EXCEPT !.population = next_population]
    /\ UNCHANGED <<hyb, ens, parked, evaluation, outcome, descent, search>>

\* the update of particles k, k + 1, ... in turn, each by a clamped velocity
\* moves[k]: the position is clipped, evaluated, and the personal and the
\* global best follow
RECURSIVE MoveParticles(_, _, _, _)
MoveParticles(s, sw, k, moves) ==
    IF k > PopSize THEN sw
    ELSE LET position == Clip(sw.positions[k] + moves[k])
             val == ValueAt(s, position)
             better == val < sw.personal_best_val[k]
             best == better /\ val < sw.global_best_val
         IN MoveParticles(s,
              [positions |-> [sw.positions EXCEPT ![k] = position],
               personal_best_pos |-> IF better
                                     THEN [sw.personal_best_pos EXCEPT ![k] = position]
                                     ELSE sw.personal_best_pos,
               personal_best_val |-> IF better
                                     THEN [sw.personal_best_val EXCEPT ![k] = val]
                                     ELSE sw.personal_best_val,
               global_best_pos |-> IF best THEN position ELSE sw.global_best_pos,
               global_best_val |-> IF best THEN val ELSE sw.global_best_val],
              k + 1, moves)

\* one iteration of the swarm: log_step of the global best, the convergence
\* test, the update of every particle
ParticleSwarmIteration ==
    /\ Running("pso")
    /\ alg.i < MaxIterOf(alg.ctx)
    /\ LET s == alg.ctx
           st1 == LogStep(St, s, alg.i, alg.bf, alg.bx, Null)
           h == st1.ctx[s].loss_history
       IN IF alg.i > 0 /\ Abs(alg.bf - h[Len(h) - 1]) < Tol
          THEN /\ Return(Terminate(st1, s, "converged", alg.bx), s)
               /\ pop' = [pop EXCEPT !.status = "returned"]
          ELSE \E moves \in [1..PopSize -> {-1, 0, 1}] :
                 LET sw == MoveParticles(s,
                             [positions |-> pop.population,
                              personal_best_pos |-> pop.personal_best_pos,
                              personal_best_val |-> pop.personal_best_val,
                              global_best_pos |-> alg.bx,
                              global_best_val |-> alg.bf], 1, moves)
                 IN /\ Continue(st1, [alg EXCEPT !.bf = sw.global_best_val,
                                                 !.bx = sw.global_best_pos,
                                                 !.i = @ + 1])
                    /\ pop' = [pop EXCEPT
                                 !.population = sw.positions,
                                 !.personal_best_pos = sw.personal_best_pos,
                                 !.personal_best_val = sw.personal_best_val]
    /\ UNCHANGED <<hyb, ens, parked, evaluation, outcome, descent, search>>

\* optimization_method(context, wrapper): the code before the main loop
Invoke(st, s, v, g, p) ==
    LET method_name == st.ctx[s].config.primary_method
        m == GetOptimizationMethod(method_name)
        st0 == [st EXCEPT !.calls = <<>>]
        r == CASE m = "sgd" -> GradientDescentInit(st0, s)
               [] m = "adam" -> AdamInit(st0, s)
               [] m = "bfgs" -> BfgsInit(st0, s, v, g)
               [] m = "newton_cg" -> NewtonCgInit(st0, s)
               [] m = "genetic" -> GeneticInit(st0, s)
               [] m = "pso" -> ParticleSwarmInit(st0, s, v, p)
               [] m = "sa" -> SimulatedAnnealingInit(st0, s, v)
    IN [st |-> r.st,
        frame |-> [r.frame EXCEPT !.warnings = LookupWarnings(method_name)]]

\* the inputs the code before the loop of method m reads
InitInputs(m) ==
    LET n == GetOptimizationMethod(m)
    IN CASE n = "bfgs" -> Values \X {0, 2} \X {0}
         [] n = "pso" -> Values \X {0} \X Params
         [] n = "sa" -> Values \X {0} \X {0}
         [] OTHER -> {<<0, 0, 0>>}

AlgStep ==
    \/ GradientDescentStep \/ GradientDescentDone
    \/ AdamStep \/ AdamDone
    \/ BfgsStep \/ BfgsDone
    \/ NewtonCgStep \/ NewtonCgDone
    \/ GeneticStep \/ GeneticDone
    \/ ParticleSwarmStep \/ ParticleSwarmDone
    \/ SimulatedAnnealingStep \/ SimulatedAnnealingDone

-----------------------------------------------------------------------------
(* QuantumReasoningBridge: the registry is contexts restricted to Ids; the  *)
(* slot SubSlot holds the local sub_context of a hybrid run and CopySlot a  *)
(* context a caller obtained from deserialize.                             *)

SubSlot == <<"sub">>
CopySlot == <<"copy">>

ThrNum == 1
ThrDen == 10
Window == 10

IdleHyb ==
    [pc |-> "idle", ctx |-> <<>>, all_methods |-> <<>>, idx |-> 0,
     current_parameters |-> Null, best_loss |-> Inf, best_parameters |-> Null,
     iteration |-> 0, sub_results |-> <<>>]

Idle == alg.status # "running" /\ hyb.pc \in {"idle", "done", "raised"}

Without(ctx, s) == [t \in DOMAIN ctx \ {s} |-> ctx[t]]

\* what the caller of the bridge sees of its latest call: the method, the
\* context id it named, and the exception that left the method
NoError == "none"
Called(call, context_id) ==
    [call |-> call, context_id |-> context_id, raised |-> NoError]
NoCall == Called("none", <<>>)

\* self.optimization_contexts[context_id] = OptimizationContext(...)
Register(st, context_id, parameters, config) ==
    LET ref == FreshRef(Without(st.ctx, context_id))
    IN [st EXCEPT
          !.ctx = (context_id :> NewContext(context_id, parameters, config, ref))
                  @@ st.ctx,
          !.lists = (ref :> <<>>) @@ st.lists]

\* a config without the key "id"
NoId == <<>>

\* str(uuid.uuid4()): an id no registered context has
Uuid4(ctx) == <<"uuid", Cardinality(DOMAIN ctx) + 1>>

\* config.get("id", str(uuid.uuid4()))
ContextId(ctx, config) == IF config.id = NoId THEN Uuid4(ctx) ELSE config.id

CreateContext(config) ==
    /\ Idle
    /\ LET context_id == ContextId(contexts, config)
       IN /\ Commit(Register(St, context_id, F32(config.initial_parameters), config))
          /\ outcome' = Called("create_optimization_context", context_id)
    /\ UNCHANGED <<alg, result, hyb, ens, parked, evaluation, descent, search, pop>>

\* the call returns nothing and raises nothing
NotFoundIgnored(call, context_id) ==
    /\ outcome' = Called(call, context_id)
    /\ UNCHANGED <<contexts, lists, now, calls, alg, result, hyb, ens, parked,
                   evaluation, descent, search, pop>>

\* raise ValueError(f"Optimization context {context_id} not found")
NotFound(call, context_id) ==
    /\ outcome' = [Called(call, context_id) EXCEPT !.raised = "ValueError"]
    /\ UNCHANGED <<contexts, lists, now, calls, alg, result, hyb, ens, parked,
                   evaluation, descent, search, pop>>

RunOptimization(context_id) ==
    /\ Idle
    /\ IF context_id \notin DOMAIN contexts
       THEN NotFound("run_optimization", context_id)
       ELSE /\ now < MaxTime
            /\ \E in \in InitInputs(contexts[context_id].config.primary_method) :
                 LET r == Invoke(St, context_id, in[1], in[2], in[3])
                 IN /\ alg' = r.frame
                    /\ Commit(r.st)
            /\ result' = NoResult
            /\ hyb' = IdleHyb
            /\ outcome' = Called("run_optimization", context_id)
            /\ UNCHANGED <<ens, parked, evaluation, descent, search, pop>>

\* return self.optimization_contexts[context_id].serialize(): the caller
\* receives Serialize(St, context_id)
GetOptimizationContext(context_id) ==
    /\ Idle
    /\ IF context_id \notin DOMAIN contexts
       THEN NotFound("get_optimization_context", context_id)
       ELSE /\ outcome' = Called("get_optimization_context", context_id)
            /\ UNCHANGED <<contexts, lists, now, calls, alg, result, hyb, ens,
                           parked, evaluation, descent, search, pop>>

\* run_optimization on a context configured with "genetic" or "pso": the
\* code of the algorithm before its main loop
RunPopulation(context_id) ==
    /\ Idle
    /\ context_id \in DOMAIN contexts
    /\ now < MaxTime
    /\ \E objective \in ObjectiveFunctions,
          population \in InitialPopulations(contexts[context_id].current_parameters) :
         LET vals == [k \in 1..PopSize |-> objective[population[k]]]
             best == ArgMin(vals)
             r == Invoke(St, context_id, vals[best], 0, population[best])
         IN /\ alg' = r.frame
            /\ Commit(r.st)
            /\ pop' = [status |-> "running", objective |-> objective,
                       population |-> population,
                       personal_best_pos |-> population,
                       personal_best_val |->
                           [k \in 1..PopSize |->
                              NumpyEvaluation(contexts[context_id].config,
                                              vals[k], 0).value]]
    /\ result' = NoResult
    /\ hyb' = IdleHyb
    /\ outcome' = Called("run_optimization", context_id)
    /\ UNCHANGED <<ens, parked, evaluation, descent, search>>

\* a caller's own context.log_step(...)
LogStepCall(s, loss, parameters) ==
    /\ Idle
    /\ s \in DOMAIN contexts
    /\ now < MaxTime
    /\ Commit(LogStep([St EXCEPT !.calls = <<>>], s,
                      Len(contexts[s].loss_history), loss, parameters, Null))
    /\ UNCHANGED <<alg, result, hyb, ens, parked, evaluation, outcome, descent, search, pop>>

\* OptimizationContext.deserialize(context.serialize())
DeserializeCall(context_id) ==
    /\ Idle
    /\ context_id \in DOMAIN contexts
    /\ Commit([St EXCEPT !.ctx = (CopySlot :> Deserialize(St, Serialize(St, context_id), 0))
                                 @@ St.ctx])
    /\ UNCHANGED <<alg, result, hyb, ens, parked, evaluation, outcome, descent, search, pop>>

(* ---- run_hybrid_optimization ---- *)

AllMethods(config) == <<config.primary_method>> \o config.secondary_methods

\* int(max_iter * method_weights.get(method, 1.0 / len(all_methods)))
MaxIterationsPerMethod(config, method) ==
    LET w == config.method_weights[method]
    IN IF w = Null THEN config.max_iterations \div Len(AllMethods(config))
       ELSE (config.max_iterations * w) \div WDen

HybridBegin(context_id) ==
    /\ Idle
    /\ IF context_id \notin DOMAIN contexts
       THEN NotFound("run_hybrid_optimization", context_id)
       ELSE /\ now < MaxTime
            /\ LET c == contexts[context_id]
               IN /\ hyb' = [IdleHyb EXCEPT !.pc = "next", !.ctx = context_id,
                                            !.all_methods = AllMethods(c.config),
                                            !.idx = 1,
                                            !.current_parameters = c.current_parameters,
                                            !.best_parameters = c.current_parameters]
                  /\ Commit(Start([St EXCEPT !.calls = <<>>], context_id))
            /\ alg' = IdleFrame
            /\ result' = NoResult
            /\ outcome' = Called("run_hybrid_optimization", context_id)
            /\ UNCHANGED <<ens, parked, evaluation, descent, search, pop>>

HybridSubStart ==
    /\ hyb.pc = "next"
    /\ LET config == contexts[hyb.ctx].config
           method_name == hyb.all_methods[hyb.idx]
           method_config == [config EXCEPT
                               !.primary_method = method_name,
                               !.max_iterations = MaxIterationsPerMethod(config, method_name),
                               !.initial_parameters = hyb.current_parameters]
           st1 == Register(St, SubSlot, hyb.current_parameters, method_config)
           st2 == [st1 EXCEPT !.ctx[SubSlot].id = <<hyb.ctx[1], method_name>>]
       IN \E in \in InitInputs(method_name) :
            LET r == Invoke(st2, SubSlot, in[1], in[2], in[3])
            IN /\ alg' = r.frame
               /\ Commit(r.st)
    /\ hyb' = [hyb EXCEPT !.pc = "running"]
    /\ UNCHANGED <<result, ens, parked, evaluation, outcome, descent, search, pop>>

\* a copy loop that appends the sub-run's steps with the indices they have
CopyStepsKeepingIteration(st, parent, sub, iteration) ==
    LET src == st.lists[st.ctx[sub].steps]
    IN [st EXCEPT !.lists[st.ctx[parent].steps] = @ \o src,
                  !.ctx[parent].loss_history = @ \o [k \in 1..Len(src) |-> src[k].loss]]

\* for step in sub_context.steps: step["iteration"] = iteration; append to the parent
CopySteps(st, parent, sub, iteration) ==
    LET src == st.lists[st.ctx[sub].steps]
        renum == [k \in 1..Len(src) |-> [src[k] EXCEPT !.iteration = iteration + k - 1]]
    IN [st EXCEPT !.lists[st.ctx[sub].steps] = renum,
                  !.lists[st.ctx[parent].steps] = @ \o renum,
                  !.ctx[parent].loss_history = @ \o [k \in 1..Len(src) |-> renum[k].loss]]

\* a check that ends the chain whatever the number of losses in the parent
SwitchBreakOnAnyLength(st, parent, sub) ==
    LET h == st.ctx[parent].loss_history
        n == IF Len(h) < Window THEN Len(h) ELSE Window
        first == h[Len(h) - n + 1]
        last == h[Len(h)]
    IN /\ st.ctx[sub].termination_reason = "converged"
       /\ n >= 2
       /\ ThrDen * Abs(last - first) <= ThrNum * Abs(first)

\* the check that ends the chain after a sub-run
SwitchBreak(st, parent, sub) ==
    LET h == st.ctx[parent].loss_history
        n == IF Len(h) < Window THEN Len(h) ELSE Window
        first == h[Len(h) - n + 1]
        last == h[Len(h)]
    IN /\ st.ctx[sub].termination_reason = "converged"
       /\ Len(h) > 2
       /\ n >= 2
       /\ ThrDen * Abs(last - first) <= ThrNum * Abs(first)

\* an update that takes the latest sub-run's result whatever its loss
UpdateBestWithLatest(h, sub_result, current_parameters) ==
    [h EXCEPT !.best_loss = sub_result.finalLoss,
              !.best_parameters = current_parameters,
              !.current_parameters = current_parameters]

\* if sub_result["finalLoss"] < best_loss: best_loss, best_parameters = ...
UpdateBest(h, sub_result, current_parameters) ==
    IF sub_result.finalLoss < h.best_loss
    THEN [h EXCEPT !.best_loss = sub_result.finalLoss,
                   !.best_parameters = current_parameters,
                   !.current_parameters = current_parameters]
    ELSE [h EXCEPT !.current_parameters = current_parameters]

HybridAfterSub ==
    /\ hyb.pc = "running"
    /\ alg.status = "returned"
    /\ LET current_parameters == contexts[SubSlot].current_parameters
           h1 == UpdateBest(hyb, result, current_parameters)
           st1 == CopySteps(St, hyb.ctx, SubSlot, hyb.iteration)
           n == Len(lists[contexts[SubSlot].steps])
           stop == SwitchBreak(st1, hyb.ctx, SubSlot) \/ hyb.idx >= Len(hyb.all_methods)
       IN /\ hyb' = [h1 EXCEPT !.iteration = @ + n,
                               !.sub_results = Append(@, result),
                               !.idx = IF stop THEN @ ELSE @ + 1,
                               !.pc = IF stop THEN "finish" ELSE "next"]
          /\ Commit(st1)
    /\ alg' = [alg EXCEPT !.status = "idle"]
    /\ UNCHANGED <<result, ens, parked, evaluation, outcome, descent, search, pop>>

\* context.finish("hybrid_completed") and the three assignments after it
HybridClose(st, parent, h) ==
    LET st1 == Finish(st, parent, "hybrid_completed")
    IN [st1 EXCEPT !.ctx[parent].current_parameters = h.best_parameters,
                   !.ctx[parent].best_parameters = h.best_parameters,
                   !.ctx[parent].best_loss = h.best_loss]

HybridFinish ==
    /\ hyb.pc = "finish"
    /\ LET st1 == HybridClose(St, hyb.ctx, hyb)
           st2 == [st1 EXCEPT !.ctx = Without(st1.ctx, SubSlot)]
       IN /\ result' = GetResult(st1, hyb.ctx)
          /\ Commit(st2)
    /\ hyb' = [hyb EXCEPT !.pc = "done"]
    /\ UNCHANGED <<alg, ens, parked, evaluation, outcome, descent, search, pop>>

\* the exception of the sub-run is swallowed and the loop goes on with the
\* next method
HybridRaiseSwallowed ==
    /\ hyb.pc = "running"
    /\ alg.status = "raised"
    /\ hyb' = [hyb EXCEPT !.pc = "next", !.idx = @ + 1]
    /\ alg' = [alg EXCEPT !.status = "idle"]
    /\ Commit([St EXCEPT !.ctx = Without(St.ctx, SubSlot)])
    /\ UNCHANGED <<result, ens, parked, evaluation, outcome, descent, search, pop>>

\* an exception of the sub-run leaves run_hybrid_optimization
HybridRaise ==
    /\ hyb.pc = "running"
    /\ alg.status = "raised"
    /\ hyb' = [hyb EXCEPT !.pc = "raised"]
    /\ Commit([St EXCEPT !.ctx = Without(St.ctx, SubSlot)])
    /\ outcome' = [outcome EXCEPT !.raised = "UnboundLocalError"]
    /\ UNCHANGED <<alg, result, ens, parked, evaluation, descent, search, pop>>

HybridStep == HybridSubStart \/ HybridAfterSub \/ HybridFinish \/ HybridRaise

(* ---- create_ensemble_optimization ---- *)

NoOutput == [ensemble_parameters |-> Null, best_method |-> "none",
             best_loss |-> Null, method_results |-> <<>>]

IdleEns ==
    [pc |-> "idle", base_config |-> Null, method_variants |-> <<>>, idx |-> 0,
     results |-> <<>>, parameter_ensembles |-> <<>>, output |-> NoOutput]

RECURSIVE SumSeq(_)
SumSeq(q) == IF q = <<>> THEN 0 ELSE q[1] + SumSeq(Tail(q))

\* np.mean(parameter_ensembles, axis=0): the sum over the count, kept as the
\* fraction total / count
Mean(parameter_ensembles) ==
    [total |-> SumSeq(parameter_ensembles), count |-> Len(parameter_ensembles)]

\* a selection that takes the first member's result whatever its loss
FirstResult(results) == results[1]

\* min(results, key=lambda r: r["finalLoss"]): the first result of least finalLoss
MinByFinalLoss(results) ==
    LET k == CHOOSE i \in 1..Len(results) :
                 /\ \A j \in 1..Len(results) : results[i].finalLoss <= results[j].finalLoss
                 /\ \A j \in 1..(i - 1) : results[j].finalLoss > results[i].finalLoss
    IN results[k]

\* the reduce step and the returned record
EnsembleOutput(results, parameter_ensembles) ==
    LET best_result == MinByFinalLoss(results)
    IN [ensemble_parameters |-> Mean(parameter_ensembles),
        best_method |-> best_result.method,
        best_loss |-> best_result.finalLoss,
        method_results |-> results]

EnsembleBegin(base_config, method_variants) ==
    /\ Idle
    /\ ens.pc = "idle"
    /\ ens' = [IdleEns EXCEPT !.pc = "next", !.base_config = base_config,
                              !.method_variants = method_variants, !.idx = 1]
    /\ outcome' = Called("create_ensemble_optimization", base_config.id)
    /\ UNCHANGED <<contexts, lists, now, calls, alg, result, hyb, parked, evaluation, descent, search, pop>>

\* one pass of the loop up to the call of the algorithm:
\* create_optimization_context(config), then run_optimization(context_id)
EnsembleMemberStart ==
    /\ ens.pc = "next"
    /\ ens.idx <= Len(ens.method_variants)
    /\ LET method == ens.method_variants[ens.idx]
           config == [ens.base_config EXCEPT !.primary_method = method]
           context_id == ContextId(contexts, config)
           st1 == Register(St, context_id, F32(config.initial_parameters), config)
       IN \E in \in InitInputs(method) :
            LET r == Invoke(st1, context_id, in[1], in[2], in[3])
            IN /\ alg' = r.frame
               /\ Commit(r.st)
    /\ ens' = [ens EXCEPT !.pc = "running"]
    /\ result' = NoResult
    /\ UNCHANGED <<hyb, parked, evaluation, outcome, descent, search, pop>>

\* results.append(opt_result); parameter_ensembles.append(opt_result["parameters"])
EnsembleCollect ==
    /\ ens.pc = "running"
    /\ alg.status = "returned"
    /\ ens' = [ens EXCEPT !.results = Append(@, result),
                          !.parameter_ensembles = Append(@, result.parameters),
                          !.idx = @ + 1,
                          !.pc = "next"]
    /\ alg' = [alg EXCEPT !.status = "idle"]
    /\ UNCHANGED <<contexts, lists, now, calls, result, hyb, parked, evaluation, outcome, descent, search, pop>>

\* after the loop: the mean, the best result, the returned record; min() of
\* an empty list raises
EnsembleReduce ==
    /\ ens.pc = "next"
    /\ ens.idx > Len(ens.method_variants)
    /\ ens' = IF ens.results = <<>>
              THEN [ens EXCEPT !.pc = "raised"]
              ELSE [ens EXCEPT !.pc = "done",
                               !.output = EnsembleOutput(ens.results,
                                                         ens.parameter_ensembles)]
    /\ outcome' = IF ens.results = <<>>
                  THEN [outcome EXCEPT !.raised = "ValueError"]
                  ELSE outcome
    /\ UNCHANGED <<contexts, lists, now, calls, alg, result, hyb, parked, evaluation, descent, search, pop>>

\* an exception of a member run leaves create_ensemble_optimization
EnsembleRaise ==
    /\ ens.pc = "running"
    /\ alg.status = "raised"
    /\ ens' = [ens EXCEPT !.pc = "raised"]
    /\ outcome' = [outcome EXCEPT !.raised = "UnboundLocalError"]
    /\ UNCHANGED <<contexts, lists, now, calls, alg, result, hyb, parked, evaluation, descent, search, pop>>

EnsembleStep ==
    EnsembleMemberStart \/ EnsembleCollect \/ EnsembleReduce \/ EnsembleRaise

-----------------------------------------------------------------------------------------------------------------------------------------------------
(* Gradient descent in float32 arithmetic on f(x) = x^2 *)

NoParameters == [m |-> 0, e |-> Null]

\* the objective f(x) = x^2 with its gradient 2x, on a float32 array
Quadratic(x) == [value |-> FMul(x, x), gradients |-> FMul(Float32(2, 0), x)]

\* config: initial_learning_rate 0.1 as the float32 that multiplies the
\* gradient, tolerance 1e-6 (to 24 bits)
QuadraticConfigs ==
    {[initial_parameters |-> x0, max_iterations |-> k,
      initial_learning_rate |-> [m |-> 13421773, e |-> -27],
      tolerance |-> [m |-> 8796093, e |-> -43]] :
        x0 \in 1..5, k \in {3, 200}}

IdleDescent ==
    [status |-> "idle", config |-> <<>>, i |-> 0, params |-> NoParameters,
     loss_history |-> <<>>, best_loss |-> FInf, best_parameters |-> NoParameters,
     current_parameters |-> NoParameters, termination_reason |-> NoReason,
     result |-> <<>>]

\* context.get_result() of the float32 run
DescentResult(d) ==
    [finalLoss |-> d.best_loss,
     parameters |-> IF d.best_parameters # NoParameters THEN d.best_parameters
                    ELSE d.current_parameters,
     iterations |-> Len(d.loss_history),
     terminationReason |-> d.termination_reason]

\* create_optimization_context(config), then gradient_descent up to its loop
DescentBegin ==
    /\ descent.status = "idle"
    /\ \E config \in QuadraticConfigs :
         descent' = [IdleDescent EXCEPT
                       !.status = "running",
                       !.config = config,
                       !.params = Float32(config.initial_parameters, 0),
                       !.current_parameters = Float32(config.initial_parameters, 0)]
    /\ UNCHANGED <<contexts, lists, now, calls, alg, result, hyb, ens, parked,
                   evaluation, outcome, search, pop>>

\* one pass of the loop of gradient_descent: the wrapper call, log_step, the
\* convergence test, the update
DescentStep ==
    /\ descent.status = "running"
    /\ descent.i < descent.config.max_iterations
    /\ LET o == Quadratic(descent.params)
           loss == o.value
           logged == [descent EXCEPT
                        !.loss_history = Append(@, loss),
                        !.best_loss = IF FLess(loss, @) THEN loss ELSE @,
                        !.best_parameters =
                            IF FLess(loss, descent.best_loss) THEN descent.params ELSE @]
           h == logged.loss_history
       IN IF /\ descent.i > 0
             /\ FLess(FAbs(FSub(h[Len(h)], h[Len(h) - 1])), descent.config.tolerance)
          THEN LET done == [logged EXCEPT !.termination_reason = "converged",
                                          !.current_parameters = descent.params,
                                          !.status = "returned"]
               IN descent' = [done EXCEPT !.result = DescentResult(done)]
          ELSE descent' = [logged EXCEPT
                             !.params = FSub(@, FMul(descent.config.initial_learning_rate,
                                                     o.gradients)),
                             !.i = @ + 1]
    /\ UNCHANGED <<contexts, lists, now, calls, alg, result, hyb, ens, parked,
                   evaluation, outcome, search, pop>>

\* after the loop
DescentDone ==
    /\ descent.status = "running"
    /\ descent.i >= descent.config.max_iterations
    /\ LET done == [descent EXCEPT !.termination_reason = "max_iterations",
                                   !.current_parameters = descent.params,
                                   !.status = "returned"]
       IN descent' = [done EXCEPT !.result = DescentResult(done)]
    /\ UNCHANGED <<contexts, lists, now, calls, alg, result, hyb, ens, parked,
                   evaluation, outcome, search, pop>>

-----
(* Configurations and specifications *)

DefaultWeights == [m \in Methods |-> Null]

Config(method, secondary, max_iter, type, weights, cool) ==
    [id |-> <<"c1">>, initial_parameters |-> 0,
     primary_method |-> method, secondary_methods |-> secondary,
     max_iterations |-> max_iter, objective_type |-> type,
     method_weights |-> weights, cooling_steps |-> cool]

\* one algorithm, every budget, both directions
AlgConfigs ==
    {Config(m, <<>>, k, t, DefaultWeights, c) :
        m \in Methods, k \in 0..MaxIter, t \in ObjectiveTypes,
        c \in {1, 2, MaxIter + 1}}

InitBridge ==
    /\ contexts = <<>>
    /\ lists = <<>>
    /\ now = 1
    /\ calls = <<>>
    /\ alg = IdleFrame
    /\ result = NoResult
    /\ hyb = IdleHyb
    /\ ens = IdleEns
    /\ parked = IdleFrame
    /\ evaluation = NoEvaluation
    /\ outcome = NoCall
    /\ descent = IdleDescent
    /\ search = IdleSearch
    /\ pop = IdlePopulation

\* SpecAlg: one run of one algorithm on a fresh context
CreateAlg ==
    /\ DOMAIN contexts = {}
    /\ \E config \in AlgConfigs :
         /\ (config.primary_method # "sa" => config.cooling_steps = MaxIter + 1)
         /\ CreateContext(config)

RunFresh ==
    /\ alg.status = "idle"
    /\ \E id \in Ids : RunOptimization(id)

NextAlg == CreateAlg \/ RunFresh \/ AlgStep

SpecAlg == InitBridge /\ [][NextAlg]_vars

\* SpecHybrid: one hybrid run on a fresh context
FullWeights == [m \in Methods |-> WDen]

HybridConfigs ==
    {Config(m, <<>>, k, t, DefaultWeights, 2) :
        m \in Methods, k \in 0..MaxIter, t \in ObjectiveTypes}
    \cup {Config(m, <<q>>, k, "minimize", DefaultWeights, 2) :
        m \in Methods, q \in {"sgd", "bfgs"}, k \in 0..MaxIter}
    \cup {Config("adam", <<"adam">>, k, "minimize", FullWeights, 2) : k \in 0..MaxIter}
    \cup {Config("bfgs", <<"sgd">>, 2, "minimize", FullWeights, 2)}
    \cup {Config("sa", <<"pso", "genetic">>, k, "minimize", DefaultWeights, 2) :
        k \in 0..MaxIter}

CreateHybrid ==
    /\ DOMAIN contexts = {}
    /\ \E config \in HybridConfigs : CreateContext(config)

HybridFresh ==
    /\ hyb.pc = "idle"
    /\ \E id \in Ids : HybridBegin(id)

NextHybrid == CreateHybrid \/ HybridFresh \/ HybridStep \/ AlgStep

SpecHybrid == InitBridge /\ [][NextHybrid]_vars

\* SpecEnsemble: one ensemble run over a list of method names, registered
\* or not, in any letter case
MethodVariants ==
    {<<>>, <<"sgd">>, <<"rmsprop">>, <<"genetic">>,
     <<"sgd", "adam">>, <<"adam", "sgd">>, <<"SGD", "bfgs">>, <<"bfgs", "rmsprop">>,
     <<"sgd", "adam", "bfgs">>, <<"bfgs", "sgd", "Adam">>}

BaseConfigs ==
    {Config("adam", <<>>, k, t, DefaultWeights, 2) :
        k \in 0..MaxIter, t \in ObjectiveTypes}

EnsembleFresh ==
    /\ DOMAIN contexts = {}
    /\ \E base_config \in BaseConfigs, method_variants \in MethodVariants :
         EnsembleBegin(base_config, method_variants)

NextEnsemble ==
    \/ EnsembleFresh \/ EnsembleStep
    \/ GradientDescentStep \/ GradientDescentDone
    \/ AdamStep \/ AdamDone
    \/ BfgsStep \/ BfgsDone
    \/ GeneticStep \/ GeneticDone

SpecEnsemble == InitBridge /\ [][NextEnsemble]_vars

\* SpecThreads: two callers' threads on the one bridge instance; alg is the
\* invocation of the thread that holds the interpreter, parked the invocation
\* of the suspended thread
RunConcurrently(context_id) ==
    /\ alg.status = "running"
    /\ parked.status # "running"
    /\ hyb.pc = "idle"
    /\ context_id \in DOMAIN contexts
    /\ now < MaxTime
    /\ \E in \in InitInputs(contexts[context_id].config.primary_method) :
         LET r == Invoke(St, context_id, in[1], in[2], in[3])
         IN /\ alg' = r.frame
            /\ Commit(r.st)
    /\ parked' = alg
    /\ outcome' = Called("run_optimization", context_id)
    /\ UNCHANGED <<result, hyb, ens, evaluation, descent, search, pop>>

SecondCaller == \E id \in Ids : RunConcurrently(id)

\* the interpreter suspends the thread it runs and resumes the other
SwitchThread ==
    /\ parked.status = "running"
    /\ alg' = parked
    /\ parked' = alg
    /\ UNCHANGED <<contexts, lists, now, calls, result, hyb, ens, evaluation, outcome, descent, search, pop>>

ThreadConfigs ==
    {Config("sgd", <<>>, k, "minimize", DefaultWeights, 2) : k \in 0..MaxIter}

CreateShared ==
    \E config \in ThreadConfigs :
        /\ config.id \notin DOMAIN contexts
        /\ CreateContext(config)

FirstCaller == \E id \in Ids : RunOptimization(id)

NextThreads ==
    \/ CreateShared \/ FirstCaller \/ SecondCaller \/ SwitchThread
    \/ GradientDescentStep \/ GradientDescentDone

SpecThreads == InitBridge /\ [][NextThreads]_vars

\* SpecWrapper: the adapter applied to every shape of objective result
ApplyCall ==
    /\ \E t \in ObjectiveTypes, r \in ObjectiveResults :
         evaluation' = [op |-> "call", objective_type |-> t, objective_result |-> r,
                        outcome |-> WrapperCallOf(t, r)]
    /\ UNCHANGED <<contexts, lists, now, calls, alg, result, hyb, ens, parked, outcome, descent, search, pop>>

ApplyNumpyEvaluation ==
    /\ \E t \in ObjectiveTypes, r \in ObjectiveResults :
         evaluation' = [op |-> "numpy_evaluation", objective_type |-> t,
                        objective_result |-> r,
                        outcome |-> NumpyEvaluationOf(t, r)]
    /\ UNCHANGED <<contexts, lists, now, calls, alg, result, hyb, ens, parked, outcome, descent, search, pop>>

NextWrapper == ApplyCall \/ ApplyNumpyEvaluation

SpecWrapper == InitBridge /\ [][NextWrapper]_vars

\* SpecLineSearch: one run of one algorithm on a fresh context, the line
\* search of bfgs and newton_cg pass by pass; FairLineSearch: the same, the
\* interpreter always taking the next step of the run
SearchConfigs ==
    {Config(m, <<>>, k, "minimize", DefaultWeights, c) :
        m \in {"bfgs", "newton_cg"}, k \in 0..1, c \in {MaxIter + 1}}
    \cup {Config(m, <<>>, k, "minimize", DefaultWeights, c) :
        m \in Methods \ {"bfgs", "newton_cg"}, k \in 0..MaxIter,
        c \in {1, MaxIter + 1}}

CreateSearch ==
    /\ DOMAIN contexts = {}
    /\ \E config \in SearchConfigs : CreateContext(config)

NextLineSearch ==
    \/ CreateSearch \/ RunFresh
    \/ BfgsDirection \/ BfgsUpdate \/ BfgsDone
    \/ NewtonCgDirection \/ NewtonCgUpdate \/ NewtonCgDone
    \/ LineSearchPass
    \/ GradientDescentStep \/ GradientDescentDone
    \/ AdamStep \/ AdamDone
    \/ GeneticStep \/ GeneticDone
    \/ ParticleSwarmStep \/ ParticleSwarmDone
    \/ SimulatedAnnealingStep \/ SimulatedAnnealingDone

SpecLineSearch == InitBridge /\ [][NextLineSearch]_vars

FairLineSearch == SpecLineSearch /\ WF_vars(NextLineSearch)

\* SpecPopulation: one run of the genetic algorithm or of the particle swarm
\* with its population, on a deterministic objective, from initial
\* parameters inside and outside the box
PopulationConfigs ==
    {[Config(m, <<>>, k, "minimize", DefaultWeights, 2)
         EXCEPT !.initial_parameters = x0] :
        m \in {"genetic", "pso"}, k \in 0..MaxIter,
        x0 \in {LowerBound, UpperBound, UpperBound + 2}}

CreatePopulation ==
    /\ DOMAIN contexts = {}
    /\ \E config \in PopulationConfigs : CreateContext(config)

RunPopulationFresh ==
    /\ alg.status = "idle"
    /\ \E id \in Ids : RunPopulation(id)

NextPopulation ==
    \/ CreatePopulation \/ RunPopulationFresh
    \/ GeneticGeneration \/ GeneticDone
    \/ ParticleSwarmIteration \/ ParticleSwarmDone

SpecPopulation == InitBridge /\ [][NextPopulation]_vars

\* SpecDescent: gradient descent in float32 arithmetic on f(x) = x^2
NextDescent == DescentBegin \/ DescentStep \/ DescentDone

SpecDescent == InitBridge /\ [][NextDescent]_vars

\* SpecLookup: the three calls that look a context up, on registered and on
\* unregistered ids
CallIds == Ids \cup {<<"c2">>}

LookupConfigs ==
    {Config("sgd", <<>>, k, t, DefaultWeights, 2) :
        k \in 0..MaxIter, t \in ObjectiveTypes}

CreateLookup ==
    \E config \in LookupConfigs :
        /\ config.id \notin DOMAIN contexts
        /\ CreateContext(config)

RunAny == \E id \in CallIds : RunOptimization(id)

RunHybridAny == \E id \in CallIds : HybridBegin(id)

GetAny == \E id \in CallIds : GetOptimizationContext(id)

NextLookup ==
    \/ CreateLookup \/ RunAny \/ RunHybridAny \/ GetAny
    \/ HybridSubStart \/ HybridAfterSub \/ HybridFinish
    \/ GradientDescentStep \/ GradientDescentDone

SpecLookup == InitBridge /\ [][NextLookup]_vars

\* SpecComposite: one hybrid run or one ensemble run whose sub-runs include
\* the genetic algorithm, which raises when its budget is zero
CompositeConfigs ==
    {Config(m, sec, k, "minimize", DefaultWeights, 2) :
        m \in {"sgd", "genetic"},
        sec \in {<<>>, <<"sgd">>, <<"genetic", "sgd">>},
        k \in 0..MaxIter}

CompositeVariants ==
    {<<"genetic">>, <<"sgd", "sgd">>, <<"genetic", "sgd">>,
     <<"sgd", "genetic", "sgd">>}

CreateComposite ==
    /\ DOMAIN contexts = {}
    /\ ens.pc = "idle"
    /\ \E config \in CompositeConfigs : CreateContext(config)

HybridComposite ==
    /\ hyb.pc = "idle"
    /\ ens.pc = "idle"
    /\ \E id \in DOMAIN contexts : HybridBegin(id)

EnsembleComposite ==
    /\ DOMAIN contexts = {}
    /\ \E k \in 0..MaxIter, method_variants \in CompositeVariants :
         EnsembleBegin(Config("adam", <<>>, k, "minimize", DefaultWeights, 2),
                       method_variants)

NextComposite ==
    \/ CreateComposite \/ HybridComposite \/ HybridStep
    \/ EnsembleComposite \/ EnsembleStep
    \/ GradientDescentStep \/ GradientDescentDone
    \/ GeneticStep \/ GeneticDone

SpecComposite == InitBridge /\ [][NextComposite]_vars

\* Spec: the bridge and the contexts under any sequence of calls, on contexts
\* configured with gradient descent or BFGS
Configs ==
    {Config(m, sec, k, "minimize", DefaultWeights, 2) :
        m \in {"sgd", "bfgs"}, sec \in {<<>>, <<"sgd">>}, k \in 0..MaxIter}

CreateNew ==
    \E config \in Configs :
        /\ config.id \notin DOMAIN contexts
        /\ CreateContext(config)

Run == \E id \in Ids : RunOptimization(id)

RunHybrid == \E id \in Ids : HybridBegin(id)

LogStepAny ==
    \E s \in Ids \cup {CopySlot}, loss \in {0, 2}, parameters \in {0, 1} :
        LogStepCall(s, loss, parameters)

DeserializeAny == now < MaxTime /\ \E id \in Ids : DeserializeCall(id)

Next ==
    \/ CreateNew \/ Run \/ RunHybrid \/ LogStepAny \/ DeserializeAny
    \/ HybridSubStart \/ HybridAfterSub \/ HybridFinish
    \/ GradientDescentStep \/ GradientDescentDone \/ BfgsStep \/ BfgsDone

Spec == InitBridge /\ [][Next]_vars

\* SpecRegistry: contexts created with and without an "id" in their config,
\* run, and ensembles over base configs with and without an "id"
MaxContexts == 2

RegistryConfigs ==
    {[Config("sgd", <<>>, k, "minimize", DefaultWeights, 2) EXCEPT !.id = id] :
        k \in 0..1, id \in Ids \cup {NoId}}

RegistryVariants == {<<"sgd">>, <<"sgd", "sgd">>, <<"genetic", "sgd">>}

CreateRegistry ==
    /\ Cardinality(DOMAIN contexts) < MaxContexts
    /\ ens.pc = "idle"
    /\ \E config \in RegistryConfigs : CreateContext(config)

RunRegistry ==
    /\ ens.pc = "idle"
    /\ \E id \in DOMAIN contexts : RunOptimization(id)

EnsembleRegistry ==
    \E base_config \in RegistryConfigs, method_variants \in RegistryVariants :
        EnsembleBegin(base_config, method_variants)

NextRegistry ==
    \/ CreateRegistry \/ RunRegistry
    \/ EnsembleRegistry \/ EnsembleStep
    \/ GradientDescentStep \/ GradientDescentDone
    \/ GeneticStep \/ GeneticDone

SpecRegistry == InitBridge /\ [][NextRegistry]_vars

\* SpecCopy: a context, its copy through serialize and deserialize (directly
\* or from get_optimization_context), and log_step on either
NextCopy ==
    \/ CreateLookup \/ LogStepAny \/ DeserializeAny \/ GetAny
    \/ Run \/ GradientDescentStep \/ GradientDescentDone

SpecCopy == InitBridge /\ [][NextCopy]_vars

-----------------------------------------------------------------------------
(* Properties *)

Registered == Ids \cap DOMAIN contexts

StepsOf(s) == lists[contexts[s].steps]

\* C1: in every reachable state, each context's loss_history is as long as
\* its steps.
C1_LossHistoryMatchesSteps ==
    \A s \in DOMAIN contexts : Len(contexts[s].loss_history) = Len(StepsOf(s))

\* C2: in every reachable state, a context's best_loss is at most every entry
\* of its loss_history, the parent of a hybrid run included at every point
\* between its start() and its return.
C2_BestBelowHistory ==
    \A s \in DOMAIN contexts :
        \A k \in 1..Len(contexts[s].loss_history) :
            contexts[s].best_loss <= contexts[s].loss_history[k]

\* C3: no operation on a registered context increases its best_loss, and
\* best_loss / best_parameters are replaced only by a strictly lower loss.
C3_BestLossNeverIncreases ==
    [][\A id \in Registered :
         /\ contexts'[id].best_loss <= contexts[id].best_loss
         /\ (contexts'[id].best_parameters # contexts[id].best_parameters
               => contexts'[id].best_loss < contexts[id].best_loss)]_vars

\* C4: when an algorithm returns from a run on a fresh context, the number of
\* recorded steps (the result's iterations) is at most max_iterations.
C4_IterationsWithinBudget ==
    alg.status = "returned"
        => result.iterations <= contexts[alg.ctx].config.max_iterations

RunningOn(a, h, id) ==
    \/ a.status = "running" /\ a.ctx = id
    \/ h.pc \in {"next", "running", "finish"} /\ h.ctx = id

\* C5: once finish(reason) was called on a context, no later operation calls
\* start() on it, appends a step to it or changes its termination_reason, and
\* termination_reason is absent while the context is running.
C5_OneDirectionalLifecycle ==
    [][\A id \in Registered :
         /\ contexts[id].termination_reason # NoReason
              => /\ contexts'[id].start_time = contexts[id].start_time
                 /\ lists'[contexts'[id].steps] = lists[contexts[id].steps]
                 /\ contexts'[id].termination_reason = contexts[id].termination_reason
         /\ RunningOn(alg', hyb', id) => contexts'[id].termination_reason = NoReason]_vars

Admissible(m) ==
    {"converged", "max_iterations"}
    \cup (IF m \in {"bfgs", "newton_cg"} THEN {"small_improvement"} ELSE {})
    \cup (IF m = "sa" THEN {"cooled"} ELSE {})

\* C6: while an algorithm runs its calls on the context are start() followed
\* by log_step calls only, and when it returns they are start(), the
\* log_step calls, then exactly one finish(reason), with a reason admissible
\* for the algorithm.
C6_StartLogFinish ==
    /\ alg.status = "running"
         => /\ Len(calls) >= 1
            /\ calls[1] = <<alg.ctx, "start">>
            /\ \A k \in 2..Len(calls) : calls[k] = <<alg.ctx, "log_step">>
    /\ alg.status = "returned"
         => /\ Len(calls) >= 2
            /\ calls[1] = <<alg.ctx, "start">>
            /\ calls[Len(calls)] = <<alg.ctx, "finish">>
            /\ \A k \in 2..(Len(calls) - 1) : calls[k] = <<alg.ctx, "log_step">>
            /\ Len(StepsOf(alg.ctx)) = Len(calls) - 2
            /\ contexts[alg.ctx].termination_reason \in Admissible(alg.method)
            /\ result.terminationReason = contexts[alg.ctx].termination_reason

C6_Witness ==
    /\ alg.status = "returned"
    /\ alg.method = "sa"
    /\ result.terminationReason = "cooled"
    /\ result.iterations = 2

SameContext(d, c) ==
    /\ d.id = c.id
    /\ d.initial_parameters = c.initial_parameters
    /\ d.current_parameters = c.current_parameters
    /\ d.config = c.config
    /\ lists[d.steps] = lists[c.steps]
    /\ d.start_time = c.start_time
    /\ d.end_time = c.end_time
    /\ d.best_loss = c.best_loss
    /\ d.best_parameters = c.best_parameters
    /\ d.termination_reason = c.termination_reason
    /\ d.loss_history = c.loss_history

\* C7: for every reachable registered context c, deserialize(serialize(c))
\* agrees with c on every serialized field and on loss_history.
C7_RoundTrip ==
    \A id \in Registered :
        SameContext(Deserialize(St, Serialize(St, id), 0), contexts[id])

\* the parameters the chain holds when the sub-run of index hyb.idx starts:
\* the parent's for the first method, the previous sub-context's at its
\* return for a later one
HandedOver ==
    IF hyb.idx = 1 THEN contexts[hyb.ctx].current_parameters
    ELSE contexts[SubSlot].current_parameters

SubRunStarts == hyb.pc = "next" /\ hyb'.pc = "running"

MethodOrder ==
    /\ hyb.idx = Len(hyb.sub_results) + 1
    /\ contexts'[SubSlot].config.primary_method
         = (<<contexts[hyb.ctx].config.primary_method>>
              \o contexts[hyb.ctx].config.secondary_methods)[hyb.idx]
    /\ alg'.method = GetOptimizationMethod(contexts'[SubSlot].config.primary_method)

\* C8 as stated: every method of a hybrid run starts on a fresh sub-context
\* whose initial and current parameters equal the parameters handed over
\* (the parent's, then the previous sub-context's at its return), in the
\* order primary_method, secondary_methods.
C8_HandoffExact ==
    [][SubRunStarts =>
         /\ contexts'[SubSlot].initial_parameters = HandedOver
         /\ contexts'[SubSlot].current_parameters = HandedOver
         /\ MethodOrder]_vars

\* C8 amended: every method of a hybrid run starts on a fresh sub-context
\* (no steps but those of its own prelude, no termination reason) whose
\* initial and current parameters are the float32 conversion of the
\* parameters handed over, in the order primary_method, secondary_methods.
C8_HandoffFloat32 ==
    [][SubRunStarts =>
         /\ contexts'[SubSlot].initial_parameters = F32(HandedOver)
         /\ contexts'[SubSlot].current_parameters = F32(HandedOver)
         /\ contexts'[SubSlot].termination_reason = NoReason
         /\ Len(lists'[contexts'[SubSlot].steps]) <= 1
         /\ contexts'[SubSlot].steps # contexts'[hyb.ctx].steps
         /\ MethodOrder]_vars

C8_Witness ==
    /\ hyb.pc = "running"
    /\ hyb.idx = 2
    /\ hyb.current_parameters = 1
    /\ contexts[SubSlot].initial_parameters = 0
    /\ contexts[SubSlot].config.primary_method = "sgd"

RECURSIVE WeightSum(_, _)
WeightSum(weights, names) ==
    IF names = {} THEN 0
    ELSE LET m == CHOOSE n \in names : TRUE
         IN weights[m] + WeightSum(weights, names \ {m})

\* the default equal split, or given fractions that sum to at most 1
WeightsAdmissible(config) ==
    LET names == {AllMethods(config)[k] : k \in 1..Len(AllMethods(config))}
    IN \/ \A m \in names : config.method_weights[m] = Null
       \/ /\ \A m \in names : config.method_weights[m] # Null
          /\ WeightSum(config.method_weights, names) <= WDen

\* C9: when a hybrid run returns, the steps it recorded in the parent are at
\* most max_iterations, for the default split and for fractions summing to
\* at most 1.
C9_HybridWithinBudget ==
    hyb.pc = "done" /\ WeightsAdmissible(contexts[hyb.ctx].config)
        => Len(StepsOf(hyb.ctx)) <= contexts[hyb.ctx].config.max_iterations

\* C10: when a hybrid run on a fresh context returns, the context's best_loss
\* and the result's finalLoss are the least finalLoss of the executed
\* sub-runs.
C10_BestIsMinOfSubRuns ==
    hyb.pc = "done" =>
        LET finals == {hyb.sub_results[k].finalLoss : k \in 1..Len(hyb.sub_results)}
            best == contexts[hyb.ctx].best_loss
        IN /\ best \in finals
           /\ \A f \in finals : best <= f
           /\ result.finalLoss = best

C10_Witness ==
    /\ hyb.pc = "done"
    /\ Len(hyb.sub_results) = 2
    /\ hyb.sub_results[1].finalLoss < hyb.sub_results[2].finalLoss
    /\ contexts[hyb.ctx].best_loss = hyb.sub_results[1].finalLoss

\* C11: after a hybrid run that recorded steps, some recorded step of the
\* parent has loss equal to best_loss and parameters equal to
\* best_parameters, and the result's parameters are best_parameters.
C11_BestParametersAttainBestLoss ==
    hyb.pc = "done" /\ Len(StepsOf(hyb.ctx)) > 0 =>
        /\ \E k \in 1..Len(StepsOf(hyb.ctx)) :
             /\ StepsOf(hyb.ctx)[k].loss = contexts[hyb.ctx].best_loss
             /\ StepsOf(hyb.ctx)[k].parameters = contexts[hyb.ctx].best_parameters
        /\ result.parameters = contexts[hyb.ctx].best_parameters

\* a sub-run has returned and the loop decides whether a later method runs
SubRunReturns ==
    /\ hyb.pc = "running"
    /\ hyb'.pc \in {"next", "finish"}
    /\ hyb.idx < Len(hyb.all_methods)

\* |last - first| / (|first| + 1e-10) < switch_threshold over the last (up to
\* 10) losses of h
ImprovementBelowThreshold(h) ==
    LET lo == IF Len(h) > 10 THEN Len(h) - 9 ELSE 1
    IN 10 * Abs(h[Len(h)] - h[lo]) <= Abs(h[lo])

Renumbered(steps, from) ==
    [k \in 1..Len(steps) |-> [steps[k] EXCEPT !.iteration = from + k - 1]]

HybridInProgress == hyb.pc \in {"next", "running", "finish"}

SubRunCopied == hyb.pc = "running" /\ hyb'.pc \in {"next", "finish"}

\* C13: during a hybrid run the parent's steps grow only when a sub-run
\* returns, by that sub-run's steps in order, renumbered to continue the
\* parent's count; when the run returns the parent's termination_reason is
\* hybrid_completed and its steps are numbered 0, 1, 2, ...
C13_StepsConcatenatedRenumbered ==
    [][HybridInProgress =>
         /\ SubRunCopied =>
              lists'[contexts'[hyb.ctx].steps]
                = StepsOf(hyb.ctx)
                    \o Renumbered(lists[contexts[SubSlot].steps], Len(StepsOf(hyb.ctx)))
         /\ ~SubRunCopied =>
              lists'[contexts'[hyb.ctx].steps] = StepsOf(hyb.ctx)
         /\ hyb'.pc = "done" =>
              /\ contexts'[hyb.ctx].termination_reason = "hybrid_completed"
              /\ result'.terminationReason = "hybrid_completed"
              /\ \A k \in 1..Len(StepsOf(hyb.ctx)) :
                   StepsOf(hyb.ctx)[k].iteration = k - 1]_vars

C13_Witness ==
    /\ hyb.pc = "done"
    /\ Len(hyb.sub_results) = 2
    /\ hyb.sub_results[1].iterations = 2
    /\ hyb.sub_results[2].iterations >= 1
    /\ Len(StepsOf(hyb.ctx)) = hyb.sub_results[1].iterations + hyb.sub_results[2].iterations
    /\ contexts[hyb.ctx].termination_reason = "hybrid_completed"

EnsembleReturned == ens.pc = "done" /\ ens.method_variants # <<>>

\* C14: an ensemble run over a non-empty list returns the elementwise mean
\* of the members' result parameters, the least finalLoss of the members as
\* best_loss, and as best_method the name of a variant with that finalLoss.
C14_EnsembleMeanAndBest ==
    EnsembleReturned =>
        LET n == Len(ens.method_variants)
            out == ens.output
        IN /\ Len(ens.results) = n
           /\ out.ensemble_parameters.count = n
           /\ out.ensemble_parameters.total
                = SumSeq([k \in 1..n |-> ens.results[k].parameters])
           /\ \A k \in 1..n : out.best_loss <= ens.results[k].finalLoss
           /\ \E k \in 1..n :
                /\ ens.results[k].finalLoss = out.best_loss
                /\ ens.method_variants[k] = out.best_method

C14_Witness ==
    /\ EnsembleReturned
    /\ Len(ens.results) = 3
    /\ ens.results[2].finalLoss < ens.results[1].finalLoss
    /\ ens.results[2].finalLoss < ens.results[3].finalLoss
    /\ ens.output.best_method = "adam"
    /\ ens.output.ensemble_parameters.total = 1

\* the rearrangements of a list of n members
Rearrangements(n) ==
    {p \in [1..n -> 1..n] : \A i, j \in 1..n : p[i] = p[j] => i = j}

Permuted(q, p) == [k \in 1..Len(q) |-> q[p[k]]]

\* C15: the reduction returns the same ensemble_parameters, best_method and
\* best_loss for every permutation of the same members with the same
\* member results.
C15_EnsembleOrderIndependent ==
    EnsembleReturned =>
        \A p \in Rearrangements(Len(ens.results)) :
            LET out == EnsembleOutput(Permuted(ens.results, p),
                                      Permuted(ens.parameter_ensembles, p))
            IN /\ out.ensemble_parameters = ens.output.ensemble_parameters
               /\ out.best_loss = ens.output.best_loss
               /\ out.best_method = ens.output.best_method

\* C16: no two invocations are in progress on the same context at once (each
\* between its start() and its finish()), so their calls on it never
\* interleave.
C16_NoConcurrentMutation ==
    ~(/\ alg.status = "running"
      /\ parked.status = "running"
      /\ alg.ctx = parked.ctx)

\* the name an invocation was looked up by
LookedUpName == contexts[alg.ctx].config.primary_method

\* C17: an invocation looked up by an unregistered name runs Adam and the
\* lookup has emitted a warning; one looked up by a registered name, in any
\* letter case, runs that name's algorithm.
C17_UnknownNameFallsBackWithWarning ==
    alg.status \in {"running", "returned"} /\ alg.ctx \in DOMAIN contexts =>
        /\ LookedUpName = "rmsprop" => alg.method = "adam" /\ alg.warnings # <<>>
        /\ LookedUpName \in Methods => alg.method = LookedUpName
        /\ LookedUpName = "SGD" => alg.method = "sgd"
        /\ LookedUpName = "Adam" => alg.method = "adam"

WellFormed(r) ==
    \/ r.shape \in {"scalar", "pair"}
    \/ r.shape = "dict" /\ r.value # Null

C19_MalformedShapeRaises ==
    evaluation.op # "none" /\ ~WellFormed(evaluation.objective_result)
        => evaluation.outcome.status # "ok"

ContextCalls ==
    {"run_optimization", "run_hybrid_optimization", "get_optimization_context"}

C21_UnknownIdRaises ==
    [][(/\ outcome' # outcome
        /\ outcome'.call \in ContextCalls
        /\ outcome'.context_id \notin DOMAIN contexts)
       => /\ outcome'.raised = "ValueError"
          /\ contexts' = contexts
          /\ lists' = lists
          /\ alg' = alg
          /\ hyb' = hyb
          /\ result' = result]_vars

C21_Witness ==
    /\ outcome.raised = "ValueError"
    /\ outcome.call = "run_hybrid_optimization"
    /\ outcome.context_id = <<"c2">>
    /\ \E s \in DOMAIN contexts : contexts[s].termination_reason # NoReason

\* C22: when a sub-run of a hybrid run or a member run of an ensemble raises,
\* the composite call raises that error to its caller at once: it starts no
\* later sub-run or member, returns nothing (no ensemble output, no result of
\* the parent), and the parent is not finished with "hybrid_completed".
SubRunRaised == hyb.pc = "running" /\ alg.status = "raised"

MemberRaised == ens.pc = "running" /\ alg.status = "raised"

C22_RaiseEndsComposite ==
    [][/\ SubRunRaised =>
            /\ hyb'.pc = "raised"
            /\ outcome' = [outcome EXCEPT !.raised = "UnboundLocalError"]
            /\ contexts'[hyb.ctx].termination_reason = NoReason
            /\ result' = result
            /\ alg' = alg
       /\ MemberRaised =>
            /\ ens'.pc = "raised"
            /\ outcome' = [outcome EXCEPT !.raised = "UnboundLocalError"]
            /\ ens'.output = NoOutput
            /\ ens'.results = ens.results
            /\ contexts' = contexts
            /\ alg' = alg
       /\ (hyb.pc = "raised" \/ ens.pc = "raised") =>
            UNCHANGED <<contexts, lists, alg, hyb, ens, result>>]_vars

C22_Witness ==
    \/ /\ hyb.pc = "raised"
       /\ hyb.idx = 2
       /\ hyb.idx < Len(hyb.all_methods)
       /\ outcome.raised = "UnboundLocalError"
    \/ /\ ens.pc = "raised"
       /\ ens.idx = 2
       /\ ens.idx < Len(ens.method_variants)
       /\ outcome.raised = "UnboundLocalError"

\* C23: gradient descent on f(x) = x^2 with gradient 2x, from x = 5.0 with
\* learning rate 0.1, tolerance 1e-6 and max_iterations 200, returns result
\* parameters with |x| < 1e-3.
OneThousandth == [m |-> 8589935, e |-> -33]

C23_DescentReachesMinimum ==
    (/\ descent.status = "returned"
     /\ descent.config.initial_parameters = 5
     /\ descent.config.max_iterations = 200)
    => FLess(FAbs(descent.result.parameters), OneThousandth)

\* C24: every run of an algorithm ends (it returns or raises), whatever the
\* objective returns: the body of the main loop is entered at most
\* max_iterations times, and the line search of bfgs and newton_cg leaves its
\* loop after finitely many halvings also when the Armijo test never passes.
Passes(frame) == IF frame.method \in {"bfgs", "sa"} THEN frame.i - 1 ELSE frame.i

C24_EveryRunTerminates ==
    (alg.status = "running") ~> (alg.status \in {"returned", "raised"})

\* the two bounds behind it
C24_LoopsBounded ==
    /\ alg.status = "running" => Passes(alg) <= MaxIterOf(alg.ctx)
    /\ search.pc = "line" => ~FLess(search.alpha, MinAlpha)

C24_Witness ==
    /\ alg.status = "returned"
    /\ alg.method \in {"bfgs", "newton_cg"}
    /\ search.exit = "too_small"
    /\ Passes(alg) = MaxIterOf(alg.ctx)

\* C25: when the line search of bfgs or newton_cg ends because alpha fell
\* below 1e-10, the step taken (the new position x + alpha * p) is the last
\* one the line search evaluated.
SamePosition(alpha1, alpha2, p) == p = 0 \/ alpha1 = alpha2

C25_AcceptedStepWasEvaluated ==
    (search.pc = "update" /\ search.exit = "too_small")
    => SamePosition(StepTaken, search.evaluated, search.p)

\* C26: in the genetic algorithm on a deterministic objective, the best
\* individual of a generation is slot 0 of the next generation, unmodified, so
\* the loss logged at a generation is at most the loss logged at the one
\* before.
GeneticContexts ==
    {s \in DOMAIN contexts : contexts[s].config.primary_method = "genetic"}

C26_ElitismKeepsBest ==
    \A s \in GeneticContexts :
        /\ \A k \in 1..(Len(contexts[s].loss_history) - 1) :
             contexts[s].loss_history[k + 1] <= contexts[s].loss_history[k]
        /\ (Running("genetic") /\ alg.ctx = s /\ alg.i > 0) =>
             /\ pop.population[1] = Last(StepsOf(s)).parameters
             /\ ValueAt(s, pop.population[1]) = Last(contexts[s].loss_history)

C26_Witness ==
    \E s \in GeneticContexts :
        /\ Len(contexts[s].loss_history) = 2
        /\ contexts[s].loss_history[2] < contexts[s].loss_history[1]
        /\ Running("genetic")
        /\ pop.population[1] # contexts[s].config.initial_parameters
        /\ pop.population[2] # pop.population[1]

\* C27: in the genetic algorithm and the particle swarm, whatever the initial
\* parameters, every individual or particle that is evaluated, every logged
\* parameter vector and the result parameters lie within
\* [lower_bound, upper_bound].
InBox(x) == LowerBound <= x /\ x <= UpperBound

C27_WithinBounds ==
    \A s \in DOMAIN contexts :
        /\ \A k \in 1..Len(StepsOf(s)) : InBox(StepsOf(s)[k].parameters)
        /\ (pop.status = "running" /\ alg.ctx = s) =>
             \A k \in 1..PopSize : InBox(pop.population[k])
        /\ (alg.status = "returned" /\ alg.ctx = s) => InBox(result.parameters)

\* C28: simulated annealing, the particle swarm and the genetic algorithm
\* return with reason "converged" at the first checked iteration (from 2 on
\* for simulated annealing, from 1 on for the other two) whose logged best
\* value is within the tolerance of the one logged before, and at no other:
\* also at the last iteration of the budget, and for simulated annealing also
\* when the temperature has cooled.
FirstChecked(m) == IF m = "sa" THEN 2 ELSE 1

C28_ConvergedOnSmallChange ==
    [][\A s \in DOMAIN contexts \cap DOMAIN contexts' :
         (/\ alg.status = "running"
          /\ alg.ctx = s
          /\ alg.method \in {"sa", "pso", "genetic"}
          /\ Len(contexts'[s].loss_history) = Len(contexts[s].loss_history) + 1)
         => LET h == contexts'[s].loss_history
                small == /\ Len(h) - 1 >= FirstChecked(alg.method)
                         /\ Abs(h[Len(h)] - h[Len(h) - 1]) < Tol
            IN (/\ alg'.status = "returned"
                /\ contexts'[s].termination_reason = "converged") <=> small]_vars

C28_Witness ==
    /\ alg.status = "returned"
    /\ alg.method = "sa"
    /\ contexts[alg.ctx].termination_reason = "converged"
    /\ Len(contexts[alg.ctx].loss_history) = 3
    /\ MaxIterOf(alg.ctx) = 2
    /\ alg.temp + 1 >= contexts[alg.ctx].config.cooling_steps

\* C29: c2 = deserialize(serialize(c)) shares no mutable state with c: a
\* log_step on either leaves the steps and the loss_history of the other as
\* they were.
LogStepOn(s) == calls' = << <<s, "log_step">> >> /\ now' = now + 1

Kept ==
    \A id \in DOMAIN contexts :
        /\ id \in DOMAIN contexts'
        /\ contexts'[id] = contexts[id]
        /\ lists'[contexts'[id].steps] = lists[contexts[id].steps]

\* the ids of the contexts the members of the ensemble ran on
MemberIds == {ens.results[i].id : i \in 1..Len(ens.results)}

\* C30: create_optimization_context never replaces or discards a registered
\* context: every context registered before the call is registered after it
\* under its id with its steps intact; and an ensemble over k variants leaves
\* k distinct member contexts registered, one per variant.
C30_CreateNeverReplaces ==
    /\ [][(\E config \in RegistryConfigs : CreateContext(config)) => Kept]_vars
    /\ [](ens.pc = "done" =>
            /\ MemberIds \subseteq DOMAIN contexts
            /\ Cardinality(MemberIds) = Len(ens.method_variants))

====
